---- MODULE Spec2Model ----
(***************************************************************************)
(* Inventory tracker (src/app.js): the item ledger, the category registry, *)
(* the withdrawal ledger and the reports over the three localStorage       *)
(* collections.                                                            *)
(*                                                                         *)
(* Representation of JavaScript values:                                    *)
(*   - a number is [t |-> "num", v |-> n]; NaN is [t |-> "NaN", v |-> 0];  *)
(*     null (what JSON.stringify writes for NaN) is [t |-> "null", v |-> 0]*)
(*   - quantities are integers; costs are counted in hundredths, so the    *)
(*     number 2.5 is [t |-> "num", v |-> 250].  The cost texts of the      *)
(*     model have at most two decimals and are multiples of 0.25, for      *)
(*     which the floating point products of the code are exact.            *)
(*   - form text is a sequence of one-character strings.                   *)
(*   - Date.now() is the integer now; an ISO date string is the pair       *)
(*     <<day, time of day>>; the two clock readings of one call (the id    *)
(*     and the date) are the same reading.                                 *)
(*   - the texts of the model are decimal: parseInt's 0x prefix and        *)
(*     parseFloat's exponent and Infinity do not occur.                    *)
(*   - the value of a date input is <<>> when blank and <<day>> for the    *)
(*     text YYYY-MM-DD; the browser's time zone is an offset from UTC in   *)
(*     units of 1/DayLength day.                                           *)
(*                                                                         *)
(* Spec calls the whole core.  RegistrySpec, DateSpec and StatsSpec call   *)
(* the category registry, the date filter and the report statistics with   *)
(* more inputs than Spec passes to them; PatchSpec passes patches of every *)
(* shape to updateItem; ConservationSpec creates and withdraws only;       *)
(* ReadSpec makes every read; RecoverySpec starts over stores that were    *)
(* not written by the page; DialogSpec clicks through the confirmation     *)
(* dialog.                                                                 *)
(***************************************************************************)
EXTENDS Integers, Sequences, FiniteSets, TLC

\* ------------------------------------------------------------------ bounds
MaxClock == 1
MaxCalls == 3
DayLength == 2

\* ------------------------------------------------------- JavaScript values
Num(n) == [t |-> "num", v |-> n]
NaN == [t |-> "NaN", v |-> 0]
Null == [t |-> "null", v |-> 0]

DigitChars == <<"0", "1", "2", "3", "4", "5", "6", "7", "8", "9">>
IsDigit(c) == \E i \in 1..10 : DigitChars[i] = c
DigitVal(c) == (CHOOSE i \in 1..10 : DigitChars[i] = c) - 1
IsSpace(c) == c = " "

\* String.prototype.trim on the left, as parseInt and parseFloat do first
RECURSIVE TrimLeft(_)
TrimLeft(s) == IF s # <<>> /\ IsSpace(Head(s)) THEN TrimLeft(Tail(s)) ELSE s

\* length of the longest prefix of s made of decimal digits
RECURSIVE DigitPrefixLen(_)
DigitPrefixLen(s) ==
    IF s # <<>> /\ IsDigit(Head(s)) THEN 1 + DigitPrefixLen(Tail(s)) ELSE 0

\* value of a sequence of decimal digits
RECURSIVE DigitsValue(_)
DigitsValue(s) ==
    IF s = <<>> THEN 0
    ELSE 10 * DigitsValue(SubSeq(s, 1, Len(s) - 1)) + DigitVal(s[Len(s)])

SignOf(s) == IF s # <<>> /\ Head(s) = "-" THEN -1 ELSE 1
DropSign(s) == IF s # <<>> /\ (Head(s) = "-" \/ Head(s) = "+") THEN Tail(s) ELSE s

\* parseInt(text): optional sign, then the longest digit prefix; NaN if none
ParseInt(text) ==
    LET s == TrimLeft(text)
        body == DropSign(s)
        n == DigitPrefixLen(body)
    IN  IF n = 0 THEN NaN
        ELSE Num(SignOf(s) * DigitsValue(SubSeq(body, 1, n)))

\* parseFloat(text), in hundredths: optional sign, digits, optional "." and
\* digits; NaN if there is no digit at all.
ParseFloat(text) ==
    LET s == TrimLeft(text)
        body == DropSign(s)
        n == DigitPrefixLen(body)
        rest == SubSeq(body, n + 1, Len(body))
        hasDot == rest # <<>> /\ Head(rest) = "."
        fracText == IF hasDot THEN Tail(rest) ELSE <<>>
        m == DigitPrefixLen(fracText)
        d1 == IF m >= 1 THEN DigitVal(fracText[1]) ELSE 0
        d2 == IF m >= 2 THEN DigitVal(fracText[2]) ELSE 0
    IN  IF n = 0 /\ m = 0 THEN NaN
        ELSE Num(SignOf(s) * (100 * DigitsValue(SubSeq(body, 1, n)) + 10 * d1 + d2))

\* decimal digits of a natural number
RECURSIVE NatToString(_)
NatToString(n) ==
    IF n < 10 THEN <<DigitChars[n + 1]>>
    ELSE NatToString(n \div 10) \o <<DigitChars[(n % 10) + 1]>>

\* String(x) of an integer-valued number, of NaN and of null: what parseInt
\* applies to an argument that is not a string
IntToString(x) ==
    IF x.t = "NaN" THEN <<"N", "a", "N">>
    ELSE IF x.t = "null" THEN <<"n", "u", "l", "l">>
    ELSE IF x.v < 0 THEN <<"-">> \o NatToString(-x.v)
    ELSE NatToString(x.v)

\* String(x) of a number counted in hundredths
CostToString(x) ==
    IF x.t = "NaN" THEN <<"N", "a", "N">>
    ELSE IF x.t = "null" THEN <<"n", "u", "l", "l">>
    ELSE LET a == IF x.v < 0 THEN -x.v ELSE x.v
             sign == IF x.v < 0 THEN <<"-">> ELSE <<>>
             whole == NatToString(a \div 100)
             f == a % 100
             frac == IF f = 0 THEN <<>>
                     ELSE IF f % 10 = 0 THEN <<".", DigitChars[(f \div 10) + 1]>>
                     ELSE <<".", DigitChars[(f \div 10) + 1], DigitChars[(f % 10) + 1]>>
         IN  sign \o whole \o frac

\* String(undefined), what parseInt sees for a field the patch does not have
UndefinedText == <<"u", "n", "d", "e", "f", "i", "n", "e", "d">>

\* ToNumber of an operand of >, - and *: null counts as 0
ToNumber(x) == IF x.t = "null" THEN Num(0) ELSE x

\* a > b: false as soon as an operand is NaN
JsGt(a, b) ==
    LET x == ToNumber(a)
        y == ToNumber(b)
    IN  x.t = "num" /\ y.t = "num" /\ x.v > y.v

\* a + b where the code has a - b
JsSubAdds(a, b) ==
    LET x == ToNumber(a)
        y == ToNumber(b)
    IN  IF x.t = "num" /\ y.t = "num" THEN Num(x.v + y.v) ELSE NaN

\* a - b
JsSub(a, b) ==
    LET x == ToNumber(a)
        y == ToNumber(b)
    IN  IF x.t = "num" /\ y.t = "num" THEN Num(x.v - y.v) ELSE NaN

\* a * b
JsMul(a, b) ==
    LET x == ToNumber(a)
        y == ToNumber(b)
    IN  IF x.t = "num" /\ y.t = "num" THEN Num(x.v * y.v) ELSE NaN

\* a - b where the code has a + b
JsAddSubtracts(a, b) ==
    LET x == ToNumber(a)
        y == ToNumber(b)
    IN  IF x.t = "num" /\ y.t = "num" THEN Num(x.v - y.v) ELSE NaN

\* a + b of two numbers
JsAdd(a, b) ==
    LET x == ToNumber(a)
        y == ToNumber(b)
    IN  IF x.t = "num" /\ y.t = "num" THEN Num(x.v + y.v) ELSE NaN

\* a / b of two numbers: the quotient v / d, kept as the pair; 0 / 0 is NaN
JsDiv(a, b) ==
    LET x == ToNumber(a)
        y == ToNumber(b)
    IN  IF x.t # "num" \/ y.t # "num" \/ (x.v = 0 /\ y.v = 0) THEN NaN
        ELSE IF y.v = 0 THEN [t |-> "Infinity", v |-> 0]
        ELSE [t |-> "quot", v |-> x.v, d |-> y.v]

\* JSON.parse(JSON.stringify(x)) of a number: NaN is written as null
JsonNumber(x) == IF x.t = "NaN" THEN Null ELSE x

\* new Date(t).toISOString(), and new Date(iso).getTime()
ToISOString(t) == <<t \div DayLength, t % DayLength>>
DateParse(iso) == iso[1] * DayLength + iso[2]


\* ------------------------------------------------------------ constants
\* STORAGE_KEYS: the three collections are the fields items, categories and
\* withdrawals of the store.
STORAGE_KEYS == {"items", "categories", "withdrawals"}

DEFAULT_CATEGORIES == <<"Electronics", "Office Supplies", "Tools", "Uncategorized">>

\* the name compared as it is, where the code lower-cases it
ToLowerCaseOmitted(name) == name

\* String.prototype.toLowerCase on the category names of the model
ToLowerCase(name) ==
    CASE name = "Electronics" -> "electronics"
      [] name = "Office Supplies" -> "office supplies"
      [] name = "Tools" -> "tools"
      [] name = "Uncategorized" -> "uncategorized"
      [] name = "Gadgets" -> "gadgets"
      [] OTHER -> name

\* --------------------------------------------------------------- storage
\* localStorage: a key is either never written (set = FALSE) or holds a
\* text.  shape is what JSON.parse makes of the text: "array" for the JSON
\* text of a list, kept in val as the list JSON.parse gives back;
\* "unparseable" for a text JSON.parse throws on; "null" and "object" for the
\* JSON texts null and {}.
EmptyStorage ==
    [k \in STORAGE_KEYS |-> [set |-> FALSE, shape |-> "array", val |-> <<>>]]

\* a key whose text was written by something other than saveToLocalStorage
StoredText(shape) == [set |-> TRUE, shape |-> shape, val |-> <<>>]

\* JSON.parse(JSON.stringify(data)) of one collection
JsonItem(item) ==
    [item EXCEPT !.quantity = JsonNumber(@), !.unitCost = JsonNumber(@)]
JsonWithdrawal(w) ==
    [w EXCEPT !.quantity = JsonNumber(@), !.unitCost = JsonNumber(@),
              !.totalCost = JsonNumber(@)]
JsonRoundTrip(key, data) ==
    IF key = "items" THEN [i \in DOMAIN data |-> JsonItem(data[i])]
    ELSE IF key = "withdrawals" THEN [i \in DOMAIN data |-> JsonWithdrawal(data[i])]
    ELSE data

\* saveToLocalStorage(key, data): the store after the call; setItemOk is
\* whether localStorage.setItem went through (it throws when the quota is
\* exceeded, and the function then returns false and leaves the key alone).
saveToLocalStorage(st, key, data, setItemOk) ==
    IF setItemOk
    THEN [st EXCEPT ![key] = [set |-> TRUE, shape |-> "array",
                              val |-> JsonRoundTrip(key, data)]]
    ELSE st

\* the notification saveToLocalStorage shows when the write fails
SaveNotices(setItemOk) ==
    IF setItemOk THEN <<>> ELSE <<[msg |-> "Storage error", detail |-> <<>>]>>

\* loadFromLocalStorage returns the default: getItem gave no text (null, or
\* the empty text), or JSON.parse threw and the catch took over
LoadsDefault(st, key) == ~st[key].set \/ st[key].shape = "unparseable"

loadFromLocalStorage(st, key, defaultValue) ==
    IF LoadsDefault(st, key) THEN defaultValue
    ELSE IF st[key].shape = "array" THEN st[key].val
    ELSE [t |-> st[key].shape, v |-> 0]

\* Array.isArray of what loadFromLocalStorage(key, defaultValue) returns,
\* the default being a list
LoadsArray(st, key) == LoadsDefault(st, key) \/ st[key].shape = "array"

\* a read that writes the default back when the key holds no entry, where the
\* code only reads
AfterLoadSavesDefault(st, key, defaultValue) ==
    IF st[key].set THEN st ELSE saveToLocalStorage(st, key, defaultValue, TRUE)

\* the store after loadFromLocalStorage(key, defaultValue): the function
\* calls localStorage.getItem and JSON.parse and writes nothing
AfterLoad(st, key, defaultValue) == st

\* initializeStorage throws: categories.length of null
initializeStorageThrows(st) ==
    ~LoadsDefault(st, "categories") /\ st["categories"].shape = "null"

\* initializeStorage: the categories key gets the defaults when the loaded
\* value has length 0 (the length of {} is undefined); the items and the
\* withdrawals keys are written when the loaded value is not an array.  ok1,
\* ok2 and ok3 are the outcomes of the three localStorage.setItem calls.
\* When the first statement throws, nothing was written.
initializeStorage(st, ok1, ok2, ok3) ==
    LET st1 == IF LoadsArray(st, "categories")
                  /\ Len(loadFromLocalStorage(st, "categories", <<>>)) = 0
               THEN saveToLocalStorage(st, "categories", DEFAULT_CATEGORIES, ok1)
               ELSE st
        st2 == IF ~LoadsArray(st1, "items")
               THEN saveToLocalStorage(st1, "items", <<>>, ok2)
               ELSE st1
        st3 == IF ~LoadsArray(st2, "withdrawals")
               THEN saveToLocalStorage(st2, "withdrawals", <<>>, ok3)
               ELSE st2
    IN  IF initializeStorageThrows(st) THEN st ELSE st3

\* Array.prototype.unshift where the code has push
PushFront(list, x) == <<x>> \o list

\* Array.prototype.push
Push(list, x) == Append(list, x)

\* ------------------------------------------------------------ item ledger
getAllItems(st) == loadFromLocalStorage(st, "items", <<>>)

\* Array.prototype.findIndex(item => item.id === itemId), 0 when absent
FindIndex(items, itemId) ==
    IF \E i \in 1..Len(items) : items[i].id = itemId
    THEN CHOOSE i \in 1..Len(items) :
            /\ items[i].id = itemId
            /\ \A j \in 1..(i - 1) : items[j].id # itemId
    ELSE 0

\* getItem(itemId): <<item>>, or <<>> for null
getItem(st, itemId) ==
    LET items == getAllItems(st)
        i == FindIndex(items, itemId)
    IN  IF i = 0 THEN <<>> ELSE <<items[i]>>

\* itemData.description || ''
DescriptionOf(itemData) ==
    IF "description" \in DOMAIN itemData THEN itemData.description ELSE ""

\* addItem(itemData) with Date.now() = t1 and new Date() = t2
addItem(st, itemData, t1, t2, setItemOk) ==
    LET item == [id |-> <<"item", t1>>,
                 name |-> itemData.name,
                 category |-> itemData.category,
                 quantity |-> ParseInt(itemData.quantity),
                 unitCost |-> ParseFloat(itemData.unitCost),
                 dateAdded |-> ToISOString(t2),
                 description |-> DescriptionOf(itemData)]
        items == loadFromLocalStorage(st, "items", <<>>)
    IN  [st |-> saveToLocalStorage(st, "items", Push(items, item), setItemOk),
         ret |-> item,
         saves |-> <<setItemOk>>,
         notices |-> SaveNotices(setItemOk)]

\* addItem throws: items.push of a value that is not an array
addItemThrows(st) == ~LoadsArray(st, "items")

\* { ...old, ...updates }
Spread(old, updates) ==
    [f \in (DOMAIN old) \cup (DOMAIN updates) |->
        IF f \in DOMAIN updates THEN updates[f] ELSE old[f]]

\* the text parseInt / parseFloat read from a field of updates
FieldText(updates, f) == IF f \in DOMAIN updates THEN updates[f] ELSE UndefinedText

\* updateItem(itemId, updates); quantity and unitCost of updates are texts
updateItem(st, itemId, updates, setItemOk) ==
    LET items == loadFromLocalStorage(st, "items", <<>>)
        index == FindIndex(items, itemId)
    IN  IF index = 0
        THEN [st |-> st, ret |-> FALSE, saves |-> <<>>, notices |-> <<>>]
        ELSE LET merged == [Spread(items[index], updates) EXCEPT
                                !.quantity = ParseInt(FieldText(updates, "quantity")),
                                !.unitCost = ParseFloat(FieldText(updates, "unitCost"))]
                 newItems == [items EXCEPT ![index] = merged]
             IN  [st |-> saveToLocalStorage(st, "items", newItems, setItemOk),
                  ret |-> TRUE,
                  saves |-> <<setItemOk>>,
                  notices |-> SaveNotices(setItemOk)]

\* updateItem throws: items.findIndex of a value that is not an array
updateItemThrows(st) == ~LoadsArray(st, "items")

\* getItem throws: items.find of a value that is not an array
getItemThrows(st) == ~LoadsArray(st, "items")

\* deleteItem throws: items.filter of a value that is not an array
deleteItemThrows(st) == ~LoadsArray(st, "items")

\* item.id === itemId where the code has item.id !== itemId
KeptOnDeleteSameId(item, itemId) == item.id = itemId

\* the filter of deleteItem: item => item.id !== itemId
KeptOnDelete(item, itemId) == item.id # itemId

deleteItem(st, itemId, setItemOk) ==
    LET items == loadFromLocalStorage(st, "items", <<>>)
        KeepItem(item) == KeptOnDelete(item, itemId)
        filteredItems == SelectSeq(items, KeepItem)
    IN  IF Len(filteredItems) = Len(items)
        THEN [st |-> st, ret |-> FALSE, saves |-> <<>>, notices |-> <<>>]
        ELSE [st |-> saveToLocalStorage(st, "items", filteredItems, setItemOk),
              ret |-> TRUE,
              saves |-> <<setItemOk>>,
              notices |-> SaveNotices(setItemOk)]

\* ------------------------------------------------------ category registry
getAllCategories(st) == loadFromLocalStorage(st, "categories", DEFAULT_CATEGORIES)

addCategory(st, categoryName, setItemOk) ==
    LET categories == loadFromLocalStorage(st, "categories", <<>>)
    IN  IF \E i \in 1..Len(categories) :
              ToLowerCase(categories[i]) = ToLowerCase(categoryName)
        THEN [st |-> st, ret |-> FALSE, saves |-> <<>>, notices |-> <<>>]
        ELSE [st |-> saveToLocalStorage(st, "categories",
                                        Push(categories, categoryName), setItemOk),
              ret |-> TRUE,
              saves |-> <<setItemOk>>,
              notices |-> SaveNotices(setItemOk)]

\* the test of the in-use check: item => item.category === categoryName
UsesCategory(item, categoryName) == item.category = categoryName

\* deleteCategory with the in-use check made after the list was saved
deleteCategorySavesFirst(st, categoryName, setItemOk) ==
    LET items == getAllItems(st)
        inUse == \E i \in 1..Len(items) : items[i].category = categoryName
        categories == loadFromLocalStorage(st, "categories", <<>>)
        KeepCategory(cat) == cat # categoryName
        filteredCategories == SelectSeq(categories, KeepCategory)
        saved == saveToLocalStorage(st, "categories", filteredCategories, setItemOk)
    IN  IF inUse
        THEN [st |-> saved, ret |-> FALSE, saves |-> <<setItemOk>>,
              notices |-> <<[msg |-> "Cannot delete category", detail |-> <<>>]>>]
        ELSE IF Len(filteredCategories) = Len(categories)
        THEN [st |-> st, ret |-> FALSE, saves |-> <<>>, notices |-> <<>>]
        ELSE [st |-> saved, ret |-> TRUE, saves |-> <<setItemOk>>,
              notices |-> SaveNotices(setItemOk)]

deleteCategory(st, categoryName, setItemOk) ==
    LET items == getAllItems(st)
        inUse == \E i \in 1..Len(items) : UsesCategory(items[i], categoryName)
        categories == loadFromLocalStorage(st, "categories", <<>>)
        KeepCategory(cat) == cat # categoryName
        filteredCategories == SelectSeq(categories, KeepCategory)
    IN  IF inUse
        THEN [st |-> st, ret |-> FALSE, saves |-> <<>>,
              notices |-> <<[msg |-> "Cannot delete category", detail |-> <<>>]>>]
        ELSE IF Len(filteredCategories) = Len(categories)
        THEN [st |-> st, ret |-> FALSE, saves |-> <<>>, notices |-> <<>>]
        ELSE [st |-> saveToLocalStorage(st, "categories", filteredCategories, setItemOk),
              ret |-> TRUE,
              saves |-> <<setItemOk>>,
              notices |-> SaveNotices(setItemOk)]

\* addCategory throws: categories.some of a value that is not an array
addCategoryThrows(st) == ~LoadsArray(st, "categories")

\* deleteCategory throws: items.some of a value that is not an array, or,
\* past the in-use check, categories.filter of one
deleteCategoryThrows(st, categoryName) ==
    \/ ~LoadsArray(st, "items")
    \/ /\ \A i \in 1..Len(getAllItems(st)) :
              ~UsesCategory(getAllItems(st)[i], categoryName)
       /\ ~LoadsArray(st, "categories")

\* ------------------------------------------------------ withdrawal ledger
getAllWithdrawals(st) == loadFromLocalStorage(st, "withdrawals", <<>>)

\* withdrawalData.notes || ''
NotesOf(withdrawalData) ==
    IF "notes" \in DOMAIN withdrawalData THEN withdrawalData.notes ELSE ""

\* quantity > item.quantity passing one unit too many
ExceedsStockOffByOne(quantity, item) == JsGt(JsSub(quantity, Num(1)), item.quantity)

\* the stock validation: quantity > item.quantity
ExceedsStock(quantity, item) == JsGt(quantity, item.quantity)

\* withdrawItem(withdrawalData) with Date.now() = t1 and new Date() = t2;
\* ok1 and ok2 are the outcomes of the two localStorage.setItem calls (the
\* withdrawals list, then the items list inside updateItem).  ret is
\* <<withdrawal>>, or <<>> for null.
withdrawItem(st, withdrawalData, t1, t2, ok1, ok2) ==
    LET found == getItem(st, withdrawalData.itemId)
    IN  IF found = <<>>
        THEN [st |-> st, ret |-> <<>>, saves |-> <<>>,
              notices |-> <<[msg |-> "Item not found.", detail |-> <<>>]>>]
        ELSE
        LET item == found[1]
            quantity == ParseInt(withdrawalData.quantity)
        IN  IF ExceedsStock(quantity, item)
            THEN [st |-> st, ret |-> <<>>, saves |-> <<>>,
                  notices |-> <<[msg |-> "Insufficient stock. Available: ",
                                 detail |-> IntToString(item.quantity)]>>]
            ELSE
            LET totalCost == JsMul(quantity, item.unitCost)
                withdrawal == [id |-> <<"withdraw", t1>>,
                               itemId |-> item.id,
                               itemName |-> item.name,
                               category |-> item.category,
                               quantity |-> quantity,
                               unitCost |-> item.unitCost,
                               totalCost |-> totalCost,
                               date |-> ToISOString(t2),
                               notes |-> NotesOf(withdrawalData)]
                withdrawals == loadFromLocalStorage(st, "withdrawals", <<>>)
                st1 == saveToLocalStorage(st, "withdrawals",
                                          Push(withdrawals, withdrawal), ok1)
                \* { ...item, quantity: item.quantity - quantity }, with the
                \* two numbers as the text parseInt and parseFloat read
                updates == [item EXCEPT
                              !.quantity = IntToString(JsSub(item.quantity, quantity)),
                              !.unitCost = CostToString(item.unitCost)]
                upd == updateItem(st1, item.id, updates, ok2)
            IN  [st |-> upd.st,
                 ret |-> <<withdrawal>>,
                 saves |-> <<ok1>> \o upd.saves,
                 notices |-> SaveNotices(ok1) \o upd.notices]

\* withdrawItem throws: in getItem, or, past the stock validation,
\* withdrawals.push of a value that is not an array; nothing was saved yet
withdrawItemThrows(st, withdrawalData) ==
    \/ getItemThrows(st)
    \/ /\ getItem(st, withdrawalData.itemId) # <<>>
       /\ ~ExceedsStock(ParseInt(withdrawalData.quantity),
                        getItem(st, withdrawalData.itemId)[1])
       /\ ~LoadsArray(st, "withdrawals")

\* ---------------------------------------------------------------- reports
\* the day number of 2100-12-31, the end of the range when no end is given
SentinelEndDay == 47846

\* new Date(text).getTime(): text is a date of the form YYYY-MM-DD, kept as
\* <<day>> and read as midnight UTC of that day, or an ISO date string
NewDate(text) == IF Len(text) = 1 THEN text[1] * DayLength ELSE DateParse(text)

\* Date.prototype.setHours(23, 59, 59, 999) on the time t: the last instant of
\* the day t falls in, by the clock of a zone that is offset ahead of UTC
SetHoursEndOfDay(t, offset) ==
    LET local == t + offset
        midnight == (local \div DayLength) * DayLength
    IN  midnight + (DayLength - 1) - offset

\* getWithdrawalsByDateRange(startDate, endDate) in a zone offset ahead of
\* UTC; <<>> is the empty string of a date input left blank
getWithdrawalsByDateRange(st, startDate, endDate, offset) ==
    LET withdrawals == getAllWithdrawals(st)
        start == IF startDate # <<>> THEN NewDate(startDate) ELSE NewDate(<<0>>)
        end == SetHoursEndOfDay(IF endDate # <<>> THEN NewDate(endDate)
                                                  ELSE NewDate(<<SentinelEndDay>>),
                                offset)
        InRange(w) == DateParse(w.date) >= start /\ DateParse(w.date) <= end
    IN  SelectSeq(withdrawals, InRange)

\* The object itemCounts of renderStatistics is the sequence of its own
\* properties [key, val] in creation order.  A value is a number, or the
\* string that + gives when its left operand is not a number.
TextValue == [t |-> "text", v |-> 0]
InheritedValue == [t |-> "object", v |-> 0]
Undefined == [t |-> "undefined", v |-> 0]

\* the properties every object literal inherits from Object.prototype
ObjectPrototypeKeys ==
    { "constructor", "toString", "toLocaleString", "valueOf", "hasOwnProperty",
      "isPrototypeOf", "propertyIsEnumerable", "__proto__",
      "__defineGetter__", "__defineSetter__", "__lookupGetter__",
      "__lookupSetter__" }

\* the names of the model that are array indices (canonical decimal strings
\* of an integer), and the integer
ArrayIndexKeys == { "1", "10" }
ArrayIndexValue(key) == IF key = "1" THEN 1 ELSE 10

OwnIndex(object, key) ==
    IF \E i \in 1..Len(object) : object[i].key = key
    THEN CHOOSE i \in 1..Len(object) : object[i].key = key
    ELSE 0

\* object[key]
GetProperty(object, key) ==
    IF OwnIndex(object, key) # 0 THEN object[OwnIndex(object, key)].val
    ELSE IF key \in ObjectPrototypeKeys THEN InheritedValue
    ELSE Undefined

\* object[key] = value, for a value that is not an object: the setter of
\* __proto__ ignores it
SetProperty(object, key, value) ==
    IF key = "__proto__" THEN object
    ELSE IF OwnIndex(object, key) # 0
    THEN [object EXCEPT ![OwnIndex(object, key)].val = value]
    ELSE Append(object, [key |-> key, val |-> value])

\* x || 0
OrZero(x) ==
    IF x.t \in {"undefined", "null", "NaN"} \/ (x.t = "num" /\ x.v = 0)
    THEN Num(0)
    ELSE x

\* x + quantity: the sum of two numbers, a string when x is a string, a
\* function or an object
Plus(x, quantity) ==
    IF x.t \in {"text", "object"} THEN TextValue ELSE JsAdd(x, quantity)

\* withdrawals.forEach(w => itemCounts[w.itemName] = (itemCounts[w.itemName] || 0) + w.quantity)
RECURSIVE CountItems(_, _)
CountItems(itemCounts, withdrawals) ==
    IF withdrawals = <<>> THEN itemCounts
    ELSE LET w == Head(withdrawals)
             count == Plus(OrZero(GetProperty(itemCounts, w.itemName)), w.quantity)
         IN  CountItems(SetProperty(itemCounts, w.itemName, count), Tail(withdrawals))

\* the array-index keys of an object in ascending order
RECURSIVE AscendingIndexEntries(_)
AscendingIndexEntries(entries) ==
    IF entries = <<>> THEN <<>>
    ELSE LET least == CHOOSE i \in 1..Len(entries) :
                          \A j \in 1..Len(entries) :
                              ArrayIndexValue(entries[i].key) <= ArrayIndexValue(entries[j].key)
             Rest(e) == e.key # entries[least].key
         IN  <<entries[least]>> \o AscendingIndexEntries(SelectSeq(entries, Rest))

\* Object.entries(object): the array-index keys in ascending order, then the
\* other keys in creation order
ObjectEntries(object) ==
    LET IsIndex(e) == e.key \in ArrayIndexKeys
        NotIndex(e) == e.key \notin ArrayIndexKeys
    IN  AscendingIndexEntries(SelectSeq(object, IsIndex)) \o SelectSeq(object, NotIndex)

\* the comparator (a, b) => b[1] - a[1] as sort reads it: NaN counts as 0
CompareCounts(a, b) ==
    LET v == JsSub(b.val, a.val)
    IN  IF v.t # "num" THEN 0 ELSE IF v.v < 0 THEN -1 ELSE IF v.v > 0 THEN 1 ELSE 0

\* one step of the stable sort: e goes behind the elements that do not come
\* after it
InsertStable(sorted, e) ==
    LET NotAfter(x) == CompareCounts(x, e) <= 0
        After(x) == ~NotAfter(x)
    IN  SelectSeq(sorted, NotAfter) \o <<e>> \o SelectSeq(sorted, After)

RECURSIVE StableSort(_, _)
StableSort(sorted, entries) ==
    IF entries = <<>> THEN sorted
    ELSE StableSort(InsertStable(sorted, Head(entries)), Tail(entries))

\* the comparator is a consistent one for these entries: being equal is
\* transitive
ConsistentComparator(entries) ==
    \A i, j, k \in 1..Len(entries) :
        ( CompareCounts(entries[i], entries[j]) = 0
          /\ CompareCounts(entries[j], entries[k]) = 0 )
        => CompareCounts(entries[i], entries[k]) = 0

Reorderings(entries) ==
    { [i \in 1..Len(entries) |-> entries[p[i]]] :
        p \in { q \in [1..Len(entries) -> 1..Len(entries)] :
                   \A i, j \in 1..Len(entries) : q[i] = q[j] => i = j } }

\* entries.sort((a, b) => b[1] - a[1]): the arrays the sort can give.  The
\* sort is stable; with a comparator that is not consistent the order is
\* left to the implementation
SortedByCount(entries) ==
    IF ConsistentComparator(entries)
    THEN { StableSort(<<>>, entries) }
    ELSE Reorderings(entries)

\* withdrawals.reduce((sum, w) => sum + w[field], sum)
RECURSIVE Reduce(_, _, _)
Reduce(sum, withdrawals, field) ==
    IF withdrawals = <<>> THEN sum
    ELSE Reduce(JsAdd(sum, Head(withdrawals)[field]), Tail(withdrawals), field)

\* the test of the early return is left out
NothingToRenderSkipped(withdrawals) == FALSE

\* withdrawals.length === 0
NothingToRender(withdrawals) == Len(withdrawals) = 0

\* the message renderStatistics shows instead of the cards
NoDataAvailable == [noData |-> TRUE]

\* renderStatistics(withdrawals): the cards it can show, one for each array
\* the sort can give; mostWithdrawn is <<>> for undefined (its card is left
\* out) or <<entry>>
renderStatistics(withdrawals) ==
    IF NothingToRender(withdrawals)
    THEN { NoDataAvailable }
    ELSE LET totalWithdrawals == Len(withdrawals)
             totalCost == Reduce(Num(0), withdrawals, "totalCost")
             totalQuantity == Reduce(Num(0), withdrawals, "quantity")
             avgCost == JsDiv(totalCost, Num(totalWithdrawals))
             itemCounts == CountItems(<<>>, withdrawals)
         IN  { [noData |-> FALSE,
                totalWithdrawals |-> totalWithdrawals,
                totalCost |-> totalCost,
                totalQuantity |-> totalQuantity,
                avgCost |-> avgCost,
                mostWithdrawn |-> IF sorted = <<>> THEN <<>> ELSE <<sorted[1]>>] :
                  sorted \in SortedByCount(ObjectEntries(itemCounts)) }

\* new Date(a.date) - new Date(b.date) where the code has b before a
CompareDatesOldestFirst(a, b) ==
    LET v == DateParse(a.date) - DateParse(b.date)
    IN  IF v < 0 THEN -1 ELSE IF v > 0 THEN 1 ELSE 0

\* the comparator (a, b) => new Date(b.date) - new Date(a.date), as a sign
CompareDates(a, b) ==
    LET v == DateParse(b.date) - DateParse(a.date)
    IN  IF v < 0 THEN -1 ELSE IF v > 0 THEN 1 ELSE 0

\* one step of the stable sort by date
InsertByDate(sorted, w) ==
    LET NotAfter(x) == CompareDates(x, w) <= 0
        After(x) == ~NotAfter(x)
    IN  SelectSeq(sorted, NotAfter) \o <<w>> \o SelectSeq(sorted, After)

RECURSIVE SortByDate(_, _)
SortByDate(sorted, withdrawals) ==
    IF withdrawals = <<>> THEN sorted
    ELSE SortByDate(InsertByDate(sorted, Head(withdrawals)), Tail(withdrawals))

\* renderWithdrawalHistory(withdrawals): the records of the rows of the
\* history table, top row first; none when the table is hidden
renderWithdrawalHistory(withdrawals) ==
    IF Len(withdrawals) = 0 THEN <<>> ELSE SortByDate(<<>>, withdrawals)

\* generateReport(filters) in a zone offset ahead of UTC: the withdrawals it
\* passes on, the statistics renderStatistics can show for them and the rows
\* of the history table; a blank filter is <<>> for a date and "" for the
\* category
\* getWithdrawalsByCategory(category)
getWithdrawalsByCategory(st, category) ==
    LET InCategory(w) == w.category = category
    IN  SelectSeq(getAllWithdrawals(st), InCategory)

generateReport(st, filters, offset) ==
    LET all == getAllWithdrawals(st)
        dated == IF filters.startDate # <<>> \/ filters.endDate # <<>>
                 THEN getWithdrawalsByDateRange(st, filters.startDate,
                                                filters.endDate, offset)
                 ELSE all
        InCategory(w) == w.category = filters.category
        withdrawals == IF filters.category # "" THEN SelectSeq(dated, InCategory)
                                                ELSE dated
    IN  { [withdrawals |-> withdrawals, statistics |-> statistics,
           history |-> renderWithdrawalHistory(withdrawals)] :
            statistics \in renderStatistics(withdrawals) }

\* ---------------------------------------------------- confirmation dialog
\* The dialog is the pair [confirmCallback, confirmModal].  A callback is the
\* closure confirmDeleteItem or confirmDeleteCategory builds, kept as the
\* call it makes: [op |-> "deleteItem", arg |-> itemId] or
\* [op |-> "deleteCategory", arg |-> categoryName].

\* closeModal('confirmModal')
closeModal(ui) == [ui EXCEPT !.confirmModal = FALSE]

\* showConfirmDialog(title, message, callback)
showConfirmDialog(callback) ==
    [confirmCallback |-> <<callback>>, confirmModal |-> TRUE]

\* confirmDeleteItem(itemId): no dialog for an id that no stored item has
confirmDeleteItem(st, ui, itemId) ==
    IF getItem(st, itemId) = <<>> THEN ui
    ELSE showConfirmDialog([op |-> "deleteItem", arg |-> itemId])

\* confirmDeleteCategory(categoryName)
confirmDeleteCategory(st, ui, categoryName) ==
    showConfirmDialog([op |-> "deleteCategory", arg |-> categoryName])

\* showNotification(message) after the notifications of the call before it
Notified(r, message) ==
    [r EXCEPT !.notices = @ \o <<[msg |-> message, detail |-> <<>>]>>]

\* the body of a callback: the core call, then the notification of its
\* outcome (a deleteCategory that returned false is followed by none)
RunCallback(st, callback, setItemOk) ==
    IF callback.op = "deleteItem"
    THEN LET r == deleteItem(st, callback.arg, setItemOk)
         IN  IF r.ret THEN Notified(r, "Item deleted successfully.")
                      ELSE Notified(r, "Failed to delete item.")
    ELSE LET r == deleteCategory(st, callback.arg, setItemOk)
         IN  IF r.ret THEN Notified(r, "Category deleted successfully.")
                      ELSE r

\* handleConfirm that leaves confirmCallback as it was
handleConfirmKeepsCallback(st, ui, setItemOk) ==
    IF ui.confirmCallback # <<>>
    THEN LET r == RunCallback(st, ui.confirmCallback[1], setItemOk)
         IN  [st |-> r.st, ui |-> closeModal(ui),
              ret |-> r.ret, saves |-> r.saves, notices |-> r.notices]
    ELSE [st |-> st, ui |-> closeModal(ui),
          ret |-> FALSE, saves |-> <<>>, notices |-> <<>>]

\* handleConfirm(): the pending callback is called and set to null, and the
\* modal is closed
handleConfirm(st, ui, setItemOk) ==
    IF ui.confirmCallback # <<>>
    THEN LET r == RunCallback(st, ui.confirmCallback[1], setItemOk)
         IN  [st |-> r.st,
              ui |-> closeModal([ui EXCEPT !.confirmCallback = <<>>]),
              ret |-> r.ret, saves |-> r.saves, notices |-> r.notices]
    ELSE [st |-> st, ui |-> closeModal(ui),
          ret |-> FALSE, saves |-> <<>>, notices |-> <<>>]

\* ----------------------------------------------------------------- inputs
\* item ids the callers pass: the ids of the stored items (the rows of the
\* inventory table, the options of the withdrawal form) and an id that no
\* stored item has
UnknownItemId == <<"item", MaxClock + 1>>
ItemIds(st) ==
    {getAllItems(st)[i].id : i \in 1..Len(getAllItems(st))} \cup {UnknownItemId}

\* drafts of createItem: the fields of the add-item form as text
Drafts ==
    { [name |-> "Widget", category |-> "Tools",
       quantity |-> <<"3">>, unitCost |-> <<"2", ".", "5", "0">>, description |-> ""],
      [name |-> "Gadget", category |-> "Electronics",
       quantity |-> <<"2">>, unitCost |-> <<"0", ".", "2", "5">>, description |-> "spare"],
      [name |-> "Gadget", category |-> "Tools",
       quantity |-> <<>>, unitCost |-> <<"a">>] }

\* patches of updateItem: the edit form (every field), and partial patches
Patches ==
    { [name |-> "Bolt", category |-> "Electronics",
       quantity |-> <<"1">>, unitCost |-> <<"1">>, description |-> "m8"],
      [name |-> "Widget", category |-> "Tools",
       quantity |-> <<"-", "1">>, unitCost |-> <<"2", ".", "5", "0">>, description |-> ""],
      [name |-> "Bolt"] }

\* quantity texts of the withdrawal form
WithdrawTexts == { <<"1">>, <<"4">>, <<"0">>, <<"-", "1">>, <<"a">> }
WithdrawNotes == { "rush" }

AddCategoryNames == { "tools" }
DeleteCategoryNames == { "Tools" }

\* ------------------------------------------------------------------ state
VARIABLES
    storage,    \* localStorage: the three collections
    now,        \* the clock Date.now() reads
    last,       \* the last call of the core: inputs, result, notifications
    calls,      \* how many calls of the core were made
    confirmCallback,    \* the pending callback: <<>> for null, or <<callback>>
    confirmModal        \* whether the confirm modal has the class active

vars == <<storage, now, last, calls, confirmCallback, confirmModal>>

\* the state of the confirmation dialog
dialog == <<confirmCallback, confirmModal>>

\* a call of the core is made
CalledWithin(max) == calls < max /\ calls' = calls + 1
Called == CalledWithin(MaxCalls)

Init ==
    /\ storage = initializeStorage(EmptyStorage, TRUE, TRUE, TRUE)
    /\ now = 0
    /\ last = [op |-> "init", args |-> <<>>, ok |-> FALSE, rec |-> <<>>,
               saves |-> <<>>, notices |-> <<>>]
    /\ calls = 0
    /\ confirmCallback = <<>>
    /\ confirmModal = FALSE

\* the clock advances between two calls
TickWithin(max) ==
    /\ now < max
    /\ now' = now + 1
    /\ UNCHANGED <<storage, last, calls, dialog>>

Tick == TickWithin(MaxClock)

AddItemOf(drafts, oks, max) ==
    \E itemData \in drafts, setItemOk \in oks :
        LET r == addItem(storage, itemData, now, now, setItemOk)
        IN  /\ CalledWithin(max)
            /\ storage' = r.st
            /\ UNCHANGED <<now, dialog>>
            /\ last' = [op |-> "addItem", args |-> [itemData |-> itemData],
                        ok |-> TRUE, rec |-> <<r.ret>>,
                        saves |-> r.saves, notices |-> r.notices]

AddItem == AddItemOf(Drafts, BOOLEAN, MaxCalls)

UpdateItemOf(patches, oks, max) ==
    \E itemId \in ItemIds(storage), updates \in patches, setItemOk \in oks :
        LET r == updateItem(storage, itemId, updates, setItemOk)
        IN  /\ CalledWithin(max)
            /\ storage' = r.st
            /\ last' = [op |-> "updateItem",
                        args |-> [itemId |-> itemId, updates |-> updates],
                        ok |-> r.ret, rec |-> <<>>,
                        saves |-> r.saves, notices |-> r.notices]
            /\ UNCHANGED <<now, dialog>>

UpdateItem == UpdateItemOf(Patches, BOOLEAN, MaxCalls)

\* the id of the call before, when that call was a deleteItem: the caller
\* repeats the call
RepeatedIds == IF last.op = "deleteItem" THEN {last.args.itemId} ELSE {}

DeleteItem ==
    \E itemId \in ItemIds(storage) \cup RepeatedIds, setItemOk \in BOOLEAN :
        LET r == deleteItem(storage, itemId, setItemOk)
        IN  /\ Called
            /\ storage' = r.st
            /\ last' = [op |-> "deleteItem", args |-> [itemId |-> itemId],
                        ok |-> r.ret, rec |-> <<>>,
                        saves |-> r.saves, notices |-> r.notices]
            /\ UNCHANGED <<now, dialog>>

AddCategoryOf(names, max) ==
    \E categoryName \in names, setItemOk \in BOOLEAN :
        LET r == addCategory(storage, categoryName, setItemOk)
        IN  /\ CalledWithin(max)
            /\ storage' = r.st
            /\ last' = [op |-> "addCategory", args |-> [categoryName |-> categoryName],
                        ok |-> r.ret, rec |-> <<>>,
                        saves |-> r.saves, notices |-> r.notices]
            /\ UNCHANGED <<now, dialog>>

AddCategory == AddCategoryOf(AddCategoryNames, MaxCalls)

DeleteCategoryOf(names, max) ==
    \E categoryName \in names, setItemOk \in BOOLEAN :
        LET r == deleteCategory(storage, categoryName, setItemOk)
        IN  /\ CalledWithin(max)
            /\ storage' = r.st
            /\ last' = [op |-> "deleteCategory", args |-> [categoryName |-> categoryName],
                        ok |-> r.ret, rec |-> <<>>,
                        saves |-> r.saves, notices |-> r.notices]
            /\ UNCHANGED <<now, dialog>>

DeleteCategory == DeleteCategoryOf(DeleteCategoryNames, MaxCalls)

WithdrawItemOf(ids, texts, oks, max) ==
    \E itemId \in ids, text \in texts, notes \in WithdrawNotes,
       ok1 \in oks, ok2 \in oks :
        LET withdrawalData == [itemId |-> itemId, quantity |-> text, notes |-> notes]
            r == withdrawItem(storage, withdrawalData, now, now, ok1, ok2)
        IN  /\ CalledWithin(max)
            /\ storage' = r.st
            /\ UNCHANGED <<now, dialog>>
            /\ last' = [op |-> "withdrawItem", args |-> withdrawalData,
                        ok |-> r.ret # <<>>, rec |-> r.ret,
                        saves |-> r.saves, notices |-> r.notices]

WithdrawItem == WithdrawItemOf(ItemIds(storage), WithdrawTexts, BOOLEAN, MaxCalls)

Next ==
    \/ Tick
    \/ AddItem
    \/ UpdateItem
    \/ DeleteItem
    \/ AddCategory
    \/ DeleteCategory
    \/ WithdrawItem

Spec == Init /\ [][Next]_vars

\* ------------------------------------------ the category registry on its own
\* The calls that read or write the categories key, with more names than Spec
\* passes and with the start in which the first write of the defaults failed.
MaxRegistryCalls == 4

RegistryDrafts ==
    { [name |-> "Widget", category |-> "Tools",
       quantity |-> <<"3">>, unitCost |-> <<"2", ".", "5", "0">>, description |-> ""] }

RegistryAddNames == { "tools", "Gadgets" }
RegistryDeleteNames ==
    { DEFAULT_CATEGORIES[i] : i \in 1..Len(DEFAULT_CATEGORIES) } \cup { "tools" }

\* init() of a fresh browser profile; localStorage.setItem may throw at once
RegistryInit ==
    /\ \E setItemOk \in BOOLEAN : storage = initializeStorage(EmptyStorage, setItemOk, TRUE, TRUE)
    /\ now = 0
    /\ last = [op |-> "init", args |-> <<>>, ok |-> FALSE, rec |-> <<>>,
               saves |-> <<>>, notices |-> <<>>]
    /\ calls = 0
    /\ confirmCallback = <<>>
    /\ confirmModal = FALSE

RegistryAddItem == AddItemOf(RegistryDrafts, BOOLEAN, MaxRegistryCalls)
RegistryAddCategory == AddCategoryOf(RegistryAddNames, MaxRegistryCalls)
RegistryDeleteCategory == DeleteCategoryOf(RegistryDeleteNames, MaxRegistryCalls)

RegistryNext ==
    \/ RegistryAddItem
    \/ RegistryAddCategory
    \/ RegistryDeleteCategory

RegistrySpec == RegistryInit /\ [][RegistryNext]_vars

\* ------------------------------------------------- the date filter on its own
\* Withdrawals of one item over several days, and the date filter of the
\* reports applied to the log in time zones behind, at and ahead of UTC.
MaxDateClock == 3
MaxDateCalls == 3
MaxFilterDay == 1

DateDrafts ==
    { [name |-> "Widget", category |-> "Tools",
       quantity |-> <<"3">>, unitCost |-> <<"2", ".", "5", "0">>, description |-> ""] }
DateTexts == { <<"1">> }

\* the values of a date input: blank, or a day
FilterDates == { <<>> } \cup { <<day>> : day \in 0..MaxFilterDay }

\* the offset of the browser's time zone from UTC, in units of 1/DayLength day
TimeZoneOffsets == { -1, 0, 1 }

\* the options of the withdrawal form: the ids of the stored items with
\* item.quantity > 0
StoredItemIds(st) ==
    { getAllItems(st)[i].id :
        i \in { j \in 1..Len(getAllItems(st)) :
                  JsGt(getAllItems(st)[j].quantity, Num(0)) } }

DateTick == TickWithin(MaxDateClock)
DateAddItem == AddItemOf(DateDrafts, {TRUE}, MaxDateCalls)
DateWithdrawItem == WithdrawItemOf(StoredItemIds(storage), DateTexts, {TRUE}, MaxDateCalls)

GetWithdrawalsByDateRangeOf(dates, offsets) ==
    \E startDate \in dates, endDate \in dates, offset \in offsets :
        /\ last' = [op |-> "getWithdrawalsByDateRange",
                    args |-> [startDate |-> startDate, endDate |-> endDate,
                              offset |-> offset],
                    ok |-> TRUE,
                    rec |-> getWithdrawalsByDateRange(storage, startDate, endDate, offset),
                    saves |-> <<>>, notices |-> <<>>]
        /\ storage' = AfterLoad(storage, "withdrawals", <<>>)
        /\ UNCHANGED <<now, calls, dialog>>

GetWithdrawalsByDateRange ==
    GetWithdrawalsByDateRangeOf(FilterDates, TimeZoneOffsets)

DateNext ==
    \/ DateTick
    \/ DateAddItem
    \/ DateWithdrawItem
    \/ GetWithdrawalsByDateRange

DateSpec == Init /\ [][DateNext]_vars

\* ------------------------------------------------- the statistics on their own
\* Withdrawals of items with several names, and the report of the log.
MaxStatsCalls == 4

StatsNames == { "A", "B", "10", "constructor" }
StatsCategory(name) == IF name = "B" THEN "Electronics" ELSE "Tools"
StatsDrafts ==
    { [name |-> name, category |-> StatsCategory(name),
       quantity |-> <<"1", "0">>, unitCost |-> <<"2", ".", "5", "0">>,
       description |-> ""] : name \in StatsNames }
StatsTexts == { <<"5">>, <<"3">> }

\* the filters of the reports tab: none, or a category
StatsFilters ==
    { [startDate |-> <<>>, endDate |-> <<>>, category |-> category] :
        category \in {"", "Tools"} }

StatsAddItem == AddItemOf(StatsDrafts, {TRUE}, MaxStatsCalls)
StatsWithdrawItem ==
    WithdrawItemOf(StoredItemIds(storage), StatsTexts, {TRUE}, MaxStatsCalls)

GenerateReportOf(filterSet, offsets) ==
    \E filters \in filterSet, offset \in offsets :
        \E report \in generateReport(storage, filters, offset) :
            /\ last' = [op |-> "generateReport", args |-> filters,
                        ok |-> TRUE, rec |-> <<report>>,
                        saves |-> <<>>, notices |-> <<>>]
            /\ storage' = AfterLoad(storage, "withdrawals", <<>>)
            /\ UNCHANGED <<now, calls, dialog>>

GenerateReport == GenerateReportOf(StatsFilters, {0})

StatsNext ==
    \/ Tick
    \/ StatsAddItem
    \/ StatsWithdrawItem
    \/ GenerateReport

StatsSpec == Init /\ [][StatsNext]_vars

\* --------------------------------------------- patches of every shape
\* updateItem is exported to any caller, and a caller may pass a patch with
\* any fields: the edit form's fields, or fields of the stored record such as
\* id and dateAdded.
MaxPatchCalls == 3

PatchDrafts ==
    { [name |-> "Widget", category |-> "Tools",
       quantity |-> <<"3">>, unitCost |-> <<"2", ".", "5", "0">>, description |-> ""] }

AnyPatches ==
    { [name |-> "Bolt", category |-> "Electronics",
       quantity |-> <<"1">>, unitCost |-> <<"1">>, description |-> "m8"],
      [id |-> UnknownItemId, quantity |-> <<"2">>, unitCost |-> <<"1">>],
      [dateAdded |-> ToISOString(MaxClock + 1),
       quantity |-> <<"2">>, unitCost |-> <<"1">>] }

PatchTexts == { <<"1">>, <<"2">> }

PatchAddItem == AddItemOf(PatchDrafts, {TRUE}, MaxPatchCalls)
PatchUpdateItem == UpdateItemOf(AnyPatches, BOOLEAN, MaxPatchCalls)
PatchWithdrawItem ==
    WithdrawItemOf(StoredItemIds(storage), PatchTexts, {TRUE}, MaxPatchCalls)

PatchNext ==
    \/ Tick
    \/ PatchAddItem
    \/ PatchUpdateItem
    \/ PatchWithdrawItem

PatchSpec == Init /\ [][PatchNext]_vars

\* ------------------------------------------------ withdrawals on their own
\* Items are created and withdrawn from, every write goes through, and no
\* caller updates an item; the withdrawal form's quantity is any text.
MaxConservationCalls == 3

ConservationDrafts ==
    { [name |-> "Widget", category |-> "Tools",
       quantity |-> <<"3">>, unitCost |-> <<"2", ".", "5", "0">>, description |-> ""],
      [name |-> "Gadget", category |-> "Electronics",
       quantity |-> <<"2">>, unitCost |-> <<"0", ".", "2", "5">>, description |-> "spare"] }

ConservationTexts == { <<"1">>, <<"2">>, <<"a">> }

ConservationAddItem == AddItemOf(ConservationDrafts, {TRUE}, MaxConservationCalls)
ConservationWithdrawItem ==
    WithdrawItemOf(StoredItemIds(storage), ConservationTexts, {TRUE},
                   MaxConservationCalls)

ConservationNext ==
    \/ Tick
    \/ ConservationAddItem
    \/ ConservationWithdrawItem

ConservationSpec == Init /\ [][ConservationNext]_vars

\* ------------------------------------------------- the read side on its own
\* Every read of the core, between the calls that fill the store.
MaxReadCalls == 3

\* the values of a date input: blank, or the first day
ReadDates == { <<>>, <<0>> }

ReadFilters ==
    { [startDate |-> startDate, endDate |-> endDate, category |-> category] :
        startDate \in ReadDates, endDate \in ReadDates,
        category \in {"", "Tools"} }

\* a read: what it returns is kept in last, and the store is the one its
\* load leaves
ReadCall(op, args, rec, key, defaultValue) ==
    /\ last' = [op |-> op, args |-> args, ok |-> TRUE, rec |-> rec,
                saves |-> <<>>, notices |-> <<>>]
    /\ storage' = AfterLoad(storage, key, defaultValue)
    /\ UNCHANGED <<now, calls, dialog>>

GetItem ==
    \E itemId \in ItemIds(storage) :
        ReadCall("getItem", [itemId |-> itemId], getItem(storage, itemId),
                 "items", <<>>)

GetAllItems ==
    ReadCall("getAllItems", <<>>, getAllItems(storage), "items", <<>>)

GetAllCategories ==
    ReadCall("getAllCategories", <<>>, getAllCategories(storage),
             "categories", DEFAULT_CATEGORIES)

GetAllWithdrawals ==
    ReadCall("getAllWithdrawals", <<>>, getAllWithdrawals(storage),
             "withdrawals", <<>>)

GetWithdrawalsByCategory ==
    \E category \in {"Tools", "Electronics"} :
        ReadCall("getWithdrawalsByCategory", [category |-> category],
                 getWithdrawalsByCategory(storage, category), "withdrawals", <<>>)

ReadAddItem == AddItemOf(ConservationDrafts, {TRUE}, MaxReadCalls)
ReadWithdrawItem ==
    WithdrawItemOf(StoredItemIds(storage), DateTexts, {TRUE}, MaxReadCalls)
ReadGetWithdrawalsByDateRange == GetWithdrawalsByDateRangeOf(ReadDates, {0})
ReadGenerateReport == GenerateReportOf(ReadFilters, {0})

ReadNext ==
    \/ Tick
    \/ ReadAddItem
    \/ ReadWithdrawItem
    \/ GetItem
    \/ GetAllItems
    \/ GetAllCategories
    \/ GetAllWithdrawals
    \/ ReadGetWithdrawalsByDateRange
    \/ GetWithdrawalsByCategory
    \/ ReadGenerateReport

ReadSpec == Init /\ [][ReadNext]_vars

\* ------------------------------------------- stores written by other hands
\* The page starts over a store whose three keys hold no text, a text
\* JSON.parse throws on, or the JSON text of something that is not a list;
\* then the ledgers are called.  Every write goes through.
MaxRecoveryCalls == 2

RawStores ==
    [STORAGE_KEYS ->
        {EmptyStorage["items"]}
        \cup {StoredText(shape) : shape \in {"unparseable", "null", "object"}}]

\* renderCategoryDropdowns throws: categories.map of a value that is not an
\* array
renderCategoryDropdownsThrows(st) == ~LoadsArray(st, "categories")

\* init() throws: in initializeStorage, or in the first render after it
\* (renderInventoryTable reads the items, a list once initializeStorage
\* returned)
initThrows(raw) ==
    \/ initializeStorageThrows(raw)
    \/ renderCategoryDropdownsThrows(initializeStorage(raw, TRUE, TRUE, TRUE))

RecoveryInit ==
    /\ \E raw \in RawStores :
          /\ storage = initializeStorage(raw, TRUE, TRUE, TRUE)
          /\ last = [op |-> "init", args |-> <<>>, ok |-> FALSE, rec |-> <<>>,
                     saves |-> <<>>, notices |-> <<>>,
                     raised |-> initThrows(raw)]
    /\ now = 0
    /\ calls = 0
    /\ confirmCallback = <<>>
    /\ confirmModal = FALSE

\* the call threw: nothing was written before the throw
Thrown(op, args) ==
    /\ storage' = storage
    /\ last' = [op |-> op, args |-> args, ok |-> FALSE, rec |-> <<>>,
                saves |-> <<>>, notices |-> <<>>, raised |-> TRUE]

\* the call returned
Returned(op, args, ok, rec, r) ==
    /\ storage' = r.st
    /\ last' = [op |-> op, args |-> args, ok |-> ok, rec |-> rec,
                saves |-> r.saves, notices |-> r.notices, raised |-> FALSE]

\* the ids of the rows, when the stored items are a list
RecoveryItemIds(st) ==
    IF LoadsArray(st, "items") THEN ItemIds(st) ELSE {UnknownItemId}

RecoveryAddItem ==
    \E itemData \in PatchDrafts :
        /\ CalledWithin(MaxRecoveryCalls)
        /\ UNCHANGED <<now, dialog>>
        /\ IF addItemThrows(storage)
           THEN Thrown("addItem", [itemData |-> itemData])
           ELSE LET r == addItem(storage, itemData, now, now, TRUE)
                IN  Returned("addItem", [itemData |-> itemData], TRUE, <<r.ret>>, r)

RecoveryUpdateItem ==
    \E itemId \in RecoveryItemIds(storage), updates \in Patches :
        /\ CalledWithin(MaxRecoveryCalls)
        /\ UNCHANGED <<now, dialog>>
        /\ IF updateItemThrows(storage)
           THEN Thrown("updateItem", [itemId |-> itemId, updates |-> updates])
           ELSE LET r == updateItem(storage, itemId, updates, TRUE)
                IN  Returned("updateItem", [itemId |-> itemId, updates |-> updates],
                             r.ret, <<>>, r)

RecoveryDeleteItem ==
    \E itemId \in RecoveryItemIds(storage) :
        /\ CalledWithin(MaxRecoveryCalls)
        /\ UNCHANGED <<now, dialog>>
        /\ IF deleteItemThrows(storage)
           THEN Thrown("deleteItem", [itemId |-> itemId])
           ELSE LET r == deleteItem(storage, itemId, TRUE)
                IN  Returned("deleteItem", [itemId |-> itemId], r.ret, <<>>, r)

RecoveryWithdrawItem ==
    \E itemId \in RecoveryItemIds(storage), text \in DateTexts :
        LET withdrawalData == [itemId |-> itemId, quantity |-> text, notes |-> ""]
        IN  /\ CalledWithin(MaxRecoveryCalls)
            /\ UNCHANGED <<now, dialog>>
            /\ IF withdrawItemThrows(storage, withdrawalData)
               THEN Thrown("withdrawItem", withdrawalData)
               ELSE LET r == withdrawItem(storage, withdrawalData, now, now, TRUE, TRUE)
                    IN  Returned("withdrawItem", withdrawalData, r.ret # <<>>, r.ret, r)

RecoveryAddCategory ==
    \E categoryName \in RegistryAddNames :
        /\ CalledWithin(MaxRecoveryCalls)
        /\ UNCHANGED <<now, dialog>>
        /\ IF addCategoryThrows(storage)
           THEN Thrown("addCategory", [categoryName |-> categoryName])
           ELSE LET r == addCategory(storage, categoryName, TRUE)
                IN  Returned("addCategory", [categoryName |-> categoryName],
                             r.ret, <<>>, r)

RecoveryDeleteCategory ==
    \E categoryName \in DeleteCategoryNames :
        /\ CalledWithin(MaxRecoveryCalls)
        /\ UNCHANGED <<now, dialog>>
        /\ IF deleteCategoryThrows(storage, categoryName)
           THEN Thrown("deleteCategory", [categoryName |-> categoryName])
           ELSE LET r == deleteCategory(storage, categoryName, TRUE)
                IN  Returned("deleteCategory", [categoryName |-> categoryName],
                             r.ret, <<>>, r)

\* getAllItems, getAllCategories and getAllWithdrawals hand out what
\* loadFromLocalStorage returns, whatever it is
RecoveryList ==
    \E key \in STORAGE_KEYS :
        /\ last' = [op |-> "getAll", args |-> [key |-> key], ok |-> TRUE,
                    rec |-> <<loadFromLocalStorage(storage, key,
                                IF key = "categories" THEN DEFAULT_CATEGORIES
                                                      ELSE <<>>)>>,
                    saves |-> <<>>, notices |-> <<>>, raised |-> FALSE]
        /\ storage' = AfterLoad(storage, key, <<>>)
        /\ UNCHANGED <<now, calls, dialog>>

RecoveryNext ==
    \/ RecoveryAddItem
    \/ RecoveryUpdateItem
    \/ RecoveryDeleteItem
    \/ RecoveryWithdrawItem
    \/ RecoveryAddCategory
    \/ RecoveryDeleteCategory
    \/ RecoveryList

RecoverySpec == RecoveryInit /\ [][RecoveryNext]_vars

\* ------------------------------------------- the confirmation dialog in use
\* Items and categories are added, their Delete buttons open the dialog, and
\* the dialog's buttons are clicked: Confirm (a double click delivers a
\* second click after the first closed the modal), Cancel, the close button,
\* and the overlay.
MaxDialogCalls == 2

Ui == [confirmCallback |-> confirmCallback, confirmModal |-> confirmModal]

\* a handler of the page ran: the dialog and the store it leaves
Clicked(op, args, ui, st, ok, saves, notices) ==
    /\ confirmCallback' = ui.confirmCallback
    /\ confirmModal' = ui.confirmModal
    /\ storage' = st
    /\ last' = [op |-> op, args |-> args, ok |-> ok, rec |-> <<>>,
                saves |-> saves, notices |-> notices]
    /\ UNCHANGED <<now, calls>>

DialogAddItem == AddItemOf(PatchDrafts, {TRUE}, MaxDialogCalls)
DialogAddCategory == AddCategoryOf(RegistryAddNames, MaxDialogCalls)

ConfirmDeleteItem ==
    \E itemId \in ItemIds(storage) :
        Clicked("confirmDeleteItem", [itemId |-> itemId],
                confirmDeleteItem(storage, Ui, itemId), storage,
                getItem(storage, itemId) # <<>>, <<>>, <<>>)

ConfirmDeleteCategory ==
    \E i \in 1..Len(getAllCategories(storage)) :
        LET categoryName == getAllCategories(storage)[i]
        IN  Clicked("confirmDeleteCategory", [categoryName |-> categoryName],
                    confirmDeleteCategory(storage, Ui, categoryName), storage,
                    TRUE, <<>>, <<>>)

HandleConfirm ==
    \E setItemOk \in BOOLEAN :
        LET r == handleConfirm(storage, Ui, setItemOk)
        IN  Clicked("handleConfirm", confirmCallback, r.ui, r.st,
                    r.ret, r.saves, r.notices)

\* the Cancel button of the dialog
CancelButton == Clicked("cancel", <<>>, closeModal(Ui), storage, TRUE, <<>>, <<>>)

\* the close button of the dialog
CloseButton == Clicked("close", <<>>, closeModal(Ui), storage, TRUE, <<>>, <<>>)

\* a click on the overlay around the dialog: overlay.classList.remove('active')
OverlayClick == Clicked("overlay", <<>>, closeModal(Ui), storage, TRUE, <<>>, <<>>)

DialogNext ==
    \/ Tick
    \/ DialogAddItem
    \/ DialogAddCategory
    \/ ConfirmDeleteItem
    \/ ConfirmDeleteCategory
    \/ HandleConfirm
    \/ CancelButton
    \/ CloseButton
    \/ OverlayClick

DialogSpec == Init /\ [][DialogNext]_vars

\* ------------------------------------------------------------ properties
\* the step is a call of op
CallOf(op) == calls' = calls + 1 /\ last'.op = op

\* every localStorage.setItem of the last call went through
AllSaved(call) == \A i \in DOMAIN call.saves : call.saves[i]

\* the largest quantity a text of the model denotes
MaxQuantity == 9

\* C1: for an item with stored quantity Q and a q with 0 < q <= Q, withdraw
\* (its store writes going through) returns a Withdrawal, leaves the item
\* with quantity Q - q and appends exactly one record, whose quantity is q,
\* whose unitCost is the item's unitCost at the call and whose totalCost is
\* q * that unitCost.
C1_WithdrawWithinStock ==
    [][ CallOf("withdrawItem") /\ AllSaved(last') =>
          LET found == getItem(storage, last'.args.itemId)
          IN  \A q \in 1..MaxQuantity :
                ( /\ found # <<>>
                  /\ found[1].quantity.t = "num"
                  /\ q <= found[1].quantity.v
                  /\ last'.args.quantity = NatToString(q) )
                =>
                LET item == found[1]
                    log == getAllWithdrawals(storage)
                    newLog == getAllWithdrawals(storage')
                IN  /\ last'.ok
                    /\ getItem(storage', item.id) # <<>>
                    /\ getItem(storage', item.id)[1].quantity = Num(item.quantity.v - q)
                    /\ Len(newLog) = Len(log) + 1
                    /\ SubSeq(newLog, 1, Len(log)) = log
                    /\ newLog[Len(newLog)].quantity = Num(q)
                    /\ newLog[Len(newLog)].unitCost = item.unitCost
                    /\ newLog[Len(newLog)].totalCost = JsMul(Num(q), item.unitCost)
                    /\ last'.rec = <<newLog[Len(newLog)]>>
      ]_vars

\* a withdrawal of part of the stock of an item that had a withdrawal before
C1_Witness ==
    /\ last.op = "withdrawItem"
    /\ last.ok
    /\ last.saves = <<TRUE, TRUE>>
    /\ last.args.quantity = <<"1">>
    /\ Len(getAllWithdrawals(storage)) = 2
    /\ getItem(storage, last.args.itemId) # <<>>
    /\ getItem(storage, last.args.itemId)[1].quantity = Num(1)
    /\ last.rec[1].totalCost = Num(250)

\* C2: for an item with stored quantity Q and a q > Q, withdraw returns null
\* with the notification "Insufficient stock. Available: Q" and leaves the
\* store (the item's quantity, the withdrawal log) as it was.
C2_InsufficientStockRejected ==
    [][ CallOf("withdrawItem") =>
          LET found == getItem(storage, last'.args.itemId)
          IN  \A q \in 0..MaxQuantity :
                ( /\ found # <<>>
                  /\ found[1].quantity.t = "num"
                  /\ q > found[1].quantity.v
                  /\ last'.args.quantity = NatToString(q) )
                =>
                /\ ~last'.ok
                /\ last'.rec = <<>>
                /\ last'.notices = <<[msg |-> "Insufficient stock. Available: ",
                                      detail |-> IntToString(found[1].quantity)]>>
                /\ storage' = storage
      ]_vars

\* a withdrawal of 4 refused on an item whose stock a withdrawal took to 2
C2_Witness ==
    /\ last.op = "withdrawItem"
    /\ ~last.ok
    /\ last.args.quantity = <<"4">>
    /\ last.notices = <<[msg |-> "Insufficient stock. Available: ", detail |-> <<"2">>]>>
    /\ Len(getAllWithdrawals(storage)) = 1
    /\ getItem(storage, last.args.itemId) # <<>>
    /\ getItem(storage, last.args.itemId)[1].quantity = Num(2)

\* C3 (as claimed): every stored item has quantity >= 0, whatever calls of
\* createItem, updateItem, deleteItem and withdraw were made.
C3_QuantityNonNegative ==
    \A i \in 1..Len(getAllItems(storage)) :
        getAllItems(storage)[i].quantity.t = "num"
            => getAllItems(storage)[i].quantity.v >= 0

\* the text is the decimal numeral of a positive integer
PositiveIntegerText(text) == \E q \in 1..MaxQuantity : text = NatToString(q)

\* C4 (as claimed): a withdrawal from an item with a stored quantity of 0, of a negative
\* number or of a text that is no number is rejected and appends nothing
\* (stated for the calls whose store writes go through).
C4_NonPositiveRejected ==
    [][ ( /\ CallOf("withdrawItem")
          /\ AllSaved(last')
          /\ getItem(storage, last'.args.itemId) # <<>>
          /\ getItem(storage, last'.args.itemId)[1].quantity.t = "num"
          /\ ~PositiveIntegerText(last'.args.quantity) )
        =>
        /\ ~last'.ok
        /\ getAllWithdrawals(storage') = getAllWithdrawals(storage)
      ]_vars

\* C5: the withdrawal log is append-only: every step keeps every record of
\* the log at its position with all its fields.
C5_LogAppendOnly ==
    [][ LET log == getAllWithdrawals(storage)
            newLog == getAllWithdrawals(storage')
        IN  /\ Len(newLog) >= Len(log)
            /\ SubSeq(newLog, 1, Len(log)) = log
      ]_vars

\* an item renamed and repriced by updateItem after a withdrawal from it: the
\* record keeps the name and the cost it was made with
C5_Witness ==
    /\ last.op = "updateItem"
    /\ last.ok
    /\ AllSaved(last)
    /\ Len(getAllWithdrawals(storage)) = 1
    /\ getAllWithdrawals(storage)[1].itemId = last.args.itemId
    /\ getItem(storage, last.args.itemId) # <<>>
    /\ getItem(storage, last.args.itemId)[1].name # getAllWithdrawals(storage)[1].itemName
    /\ getItem(storage, last.args.itemId)[1].unitCost # getAllWithdrawals(storage)[1].unitCost

\* C6 (as claimed): whatever the outcome of the two store writes of a
\* withdrawal of q from an item with stored quantity Q >= q, either the record
\* is appended and the item's quantity is Q - q, or the log and the items are
\* both as before.
C6_WithdrawAtomic ==
    [][ CallOf("withdrawItem") =>
          LET log == getAllWithdrawals(storage)
              newLog == getAllWithdrawals(storage')
              found == getItem(storage, last'.args.itemId)
              after == getItem(storage', last'.args.itemId)
          IN  \A q \in 1..MaxQuantity :
                ( /\ found # <<>>
                  /\ found[1].quantity.t = "num"
                  /\ q <= found[1].quantity.v
                  /\ last'.args.quantity = NatToString(q) )
                =>
                \/ /\ newLog = log
                   /\ getAllItems(storage') = getAllItems(storage)
                \/ /\ Len(newLog) = Len(log) + 1
                   /\ newLog[Len(newLog)].quantity = Num(q)
                   /\ after # <<>>
                   /\ after[1].quantity = Num(found[1].quantity.v - q)
      ]_vars

\* C7 (as claimed): a call whose store write failed does not return its
\* success value (the item, true, the withdrawal record).
C7_WriteFailureSurfaced == ~AllSaved(last) => ~last.ok

\* C8: a rejected call (false or null returned) leaves the three collections
\* of the store exactly as they were.
C8_RejectedLeavesStore ==
    [][ calls' = calls + 1 /\ ~last'.ok => storage' = storage ]_vars

\* deleteCategory refused for a category an item uses, with a withdrawal
\* already in the log
C8_Witness ==
    /\ last.op = "deleteCategory"
    /\ ~last.ok
    /\ last.notices = <<[msg |-> "Cannot delete category", detail |-> <<>>]>>
    /\ Len(getAllItems(storage)) = 1
    /\ Len(getAllWithdrawals(storage)) = 1

\* the draft's quantity and unitCost are texts of numbers
NumericDraft(itemData) ==
    /\ ParseInt(itemData.quantity).t = "num"
    /\ ParseFloat(itemData.unitCost).t = "num"

\* C9 (as claimed): after item = createItem(draft) of a numeric draft (the
\* store write going through), getItem(item.id) is that record: the draft's
\* fields with the id and dateAdded assigned.
C9_CreateThenGet ==
    ( /\ last.op = "addItem"
      /\ AllSaved(last)
      /\ NumericDraft(last.args.itemData) )
    =>
    /\ getItem(storage, last.rec[1].id) = last.rec
    /\ last.rec[1].name = last.args.itemData.name
    /\ last.rec[1].category = last.args.itemData.category
    /\ last.rec[1].quantity = ParseInt(last.args.itemData.quantity)
    /\ last.rec[1].unitCost = ParseFloat(last.args.itemData.unitCost)
    /\ last.rec[1].description = last.args.itemData.description

\* C10 (as claimed): no two stored items share an id and no two withdrawal
\* records share an id.
C10_IdsUnique ==
    /\ \A i, j \in 1..Len(getAllItems(storage)) :
          i # j => getAllItems(storage)[i].id # getAllItems(storage)[j].id
    /\ \A i, j \in 1..Len(getAllWithdrawals(storage)) :
          i # j => getAllWithdrawals(storage)[i].id # getAllWithdrawals(storage)[j].id

\* C11: deleteItem(id) on a stored id (its store write going through)
\* returns true, leaves getItem(id) null and keeps every item with another id,
\* in order; the same call made again right after returns false and changes
\* nothing.
C11_DeleteTwice ==
    [][ CallOf("deleteItem") =>
          LET itemId == last'.args.itemId
              items == getAllItems(storage)
              newItems == getAllItems(storage')
              OtherId(item) == item.id # itemId
          IN  /\ ( getItem(storage, itemId) # <<>> /\ AllSaved(last') )
                 => /\ last'.ok
                    /\ getItem(storage', itemId) = <<>>
                    /\ newItems = SelectSeq(items, OtherId)
              /\ ( /\ last.op = "deleteItem"
                   /\ last.ok
                   /\ AllSaved(last)
                   /\ last.args.itemId = itemId )
                 => /\ ~last'.ok
                    /\ storage' = storage
      ]_vars

\* the second of two deleteItem calls with the id of an item that was added
\* and then deleted by the first of them
C11_Witness ==
    /\ last.op = "deleteItem"
    /\ ~last.ok
    /\ last.args.itemId = <<"item", 0>>
    /\ getAllItems(storage) = <<>>

\* C16: updateItem(id, patch) on a stored id (its store write going through)
\* returns true and merges the patch into the first item with the id: a field
\* the patch names takes the patch's value, parsed as a number for quantity
\* and unitCost; every field the patch does not name, quantity and unitCost
\* included, keeps its value; no other item changes.
C16_PatchMerged ==
    [][ ( /\ CallOf("updateItem")
          /\ getItem(storage, last'.args.itemId) # <<>>
          /\ AllSaved(last') )
        => LET updates == last'.args.updates
               items == getAllItems(storage)
               newItems == getAllItems(storage')
               index == FindIndex(items, last'.args.itemId)
               old == items[index]
               new == newItems[index]
               Patched(f) ==
                   CASE f = "quantity" -> JsonNumber(ParseInt(updates[f]))
                     [] f = "unitCost" -> JsonNumber(ParseFloat(updates[f]))
                     [] OTHER -> updates[f]
           IN  /\ last'.ok
               /\ Len(newItems) = Len(items)
               /\ \A j \in 1..Len(items) : j # index => newItems[j] = items[j]
               /\ DOMAIN new = (DOMAIN old) \cup (DOMAIN updates)
               /\ \A f \in DOMAIN new :
                      new[f] = IF f \in DOMAIN updates THEN Patched(f) ELSE old[f]
      ]_vars

\* the notification of a refused deleteCategory
RefusedInUse(call) ==
    \E i \in DOMAIN call.notices : call.notices[i].msg = "Cannot delete category"

\* C12: deleteCategory(name) is refused, the registry unchanged, if and only
\* if some stored item has category exactly name; for a name no item uses
\* that is in the registry (the list getAllCategories gives), the call (its
\* store write going through) returns true and removes exactly that entry;
\* for a name that is not in the registry it returns false, the store
\* unchanged.
C12_DeleteCategoryGuard ==
    [][ CallOf("deleteCategory") =>
          LET categoryName == last'.args.categoryName
              items == getAllItems(storage)
              inUse == \E i \in 1..Len(items) : items[i].category = categoryName
              categories == getAllCategories(storage)
              listed == \E i \in 1..Len(categories) : categories[i] = categoryName
              Other(cat) == cat # categoryName
          IN  /\ RefusedInUse(last') <=> inUse
              /\ inUse => ~last'.ok /\ storage' = storage
              /\ (~inUse /\ listed /\ AllSaved(last'))
                 => /\ last'.ok
                    /\ getAllCategories(storage') = SelectSeq(categories, Other)
                    /\ Len(getAllCategories(storage')) = Len(categories) - 1
                    /\ getAllItems(storage') = items
              /\ (~inUse /\ ~listed) => ~last'.ok /\ storage' = storage
      ]_vars

\* two names that are equal once case is ignored; of the names of the model
\* only Tools and tools differ in case alone
EqualIgnoringCase(a, b) == a = b \/ {a, b} = {"Tools", "tools"}

\* C13: in every state reached from initialization by addCategory and
\* deleteCategory, no two entries of the registry are equal ignoring case.
C13_NoCaseDuplicates ==
    LET categories == getAllCategories(storage)
    IN  \A i, j \in 1..Len(categories) :
            i # j => ~EqualIgnoringCase(categories[i], categories[j])

\* addCategory("tools") was turned down by a registry that holds Tools
C13_Witness ==
    /\ last.op = "addCategory"
    /\ last.args.categoryName = "tools"
    /\ ~last.ok
    /\ \E i \in 1..Len(getAllCategories(storage)) : getAllCategories(storage)[i] = "Tools"

\* C14: addCategory(name) returns false, the registry unchanged, exactly when
\* listCategories() already has an entry equal to name ignoring case;
\* otherwise it returns true and (its store write going through) the registry
\* becomes the previous list with name appended at the end.
C14_AddCategory ==
    [][ CallOf("addCategory") /\ AllSaved(last') =>
          LET categoryName == last'.args.categoryName
              listed == getAllCategories(storage)
              present == \E i \in 1..Len(listed) :
                             EqualIgnoringCase(listed[i], categoryName)
          IN  /\ present <=> ~last'.ok
              /\ present => getAllCategories(storage') = listed
              /\ ~present => getAllCategories(storage') = Append(listed, categoryName)
      ]_vars


\* C15: listCategories() returns the seed set whenever the category store is
\* empty: when the key has never been written, and when the stored list holds
\* no entries.
C15_SeedWhenEmpty ==
    ( ~storage["categories"].set \/ storage["categories"].val = <<>> )
        => getAllCategories(storage) = DEFAULT_CATEGORIES

\* the last instant of the calendar day of a date input, with the day taken
\* in UTC (as the stored dates are written), and with the day taken by the
\* clock of the browser's time zone (as the dates are displayed)
EndOfCalendarDayUTC(date) == date[1] * DayLength + (DayLength - 1)
EndOfCalendarDayLocal(date, offset) == EndOfCalendarDayUTC(date) - offset

\* C17: filterByDateRange(start, end) returns exactly the withdrawals w with
\* start <= w.date <= end-of-calendar-day(end), both ends included; a blank
\* start gives no lower bound and a blank end no upper bound; a withdrawal
\* dated at 00:00:00 of the end date is included.  The calendar day may be
\* read in UTC or in local time: the result has to be right for one of them.
C17_DateRangeExact ==
    last.op = "getWithdrawalsByDateRange" =>
        LET startDate == last.args.startDate
            endDate == last.args.endDate
            all == getAllWithdrawals(storage)
            FromStart(w) == startDate = <<>> \/ DateParse(w.date) >= NewDate(startDate)
            InRangeUTC(w) ==
                /\ FromStart(w)
                /\ endDate = <<>> \/ DateParse(w.date) <= EndOfCalendarDayUTC(endDate)
            InRangeLocal(w) ==
                /\ FromStart(w)
                /\ endDate = <<>>
                   \/ DateParse(w.date) <= EndOfCalendarDayLocal(endDate, last.args.offset)
        IN  \/ last.rec = SelectSeq(all, InRangeUTC)
            \/ last.rec = SelectSeq(all, InRangeLocal)

\* the item names of a withdrawal set, and the summed quantity of a name
NamesOf(withdrawals) == { withdrawals[i].itemName : i \in 1..Len(withdrawals) }
TotalOf(withdrawals, name) ==
    LET Named(w) == w.itemName = name
    IN  Reduce(Num(0), SelectSeq(withdrawals, Named), "quantity")

\* the names whose summed quantity is the largest
MostWithdrawnNames(withdrawals) ==
    { name \in NamesOf(withdrawals) :
        \A other \in NamesOf(withdrawals) :
            TotalOf(withdrawals, other).v <= TotalOf(withdrawals, name).v }

\* C18: for every non-empty withdrawal set the report names a most withdrawn
\* item; it is an itemName of the set whose summed quantity is maximal, and
\* the total reported with it is that sum.
C18_MostWithdrawnMaximal ==
    ( last.op = "generateReport" /\ last.rec[1].withdrawals # <<>> )
    => LET withdrawals == last.rec[1].withdrawals
           statistics == last.rec[1].statistics
       IN  /\ ~statistics.noData
           /\ statistics.mostWithdrawn # <<>>
           /\ statistics.mostWithdrawn[1].key \in MostWithdrawnNames(withdrawals)
           /\ statistics.mostWithdrawn[1].val
                 = TotalOf(withdrawals, statistics.mostWithdrawn[1].key)

\* C19: when several names have the maximal summed quantity, the report names
\* the one of them that comes first in the withdrawal set; for every item
\* name, the decimal integer strings included.  Sets with a name that is a
\* property of Object.prototype are left aside: they are the case of C18.
C19_TieFirstEncountered ==
    ( /\ last.op = "generateReport"
      /\ last.rec[1].withdrawals # <<>>
      /\ NamesOf(last.rec[1].withdrawals) \cap ObjectPrototypeKeys = {}
      /\ Cardinality(MostWithdrawnNames(last.rec[1].withdrawals)) > 1 )
    => LET withdrawals == last.rec[1].withdrawals
           statistics == last.rec[1].statistics
           Tied(w) == w.itemName \in MostWithdrawnNames(withdrawals)
       IN  /\ statistics.mostWithdrawn # <<>>
           /\ statistics.mostWithdrawn[1].key
                 = Head(SelectSeq(withdrawals, Tied)).itemName

\* C20: the report of an empty withdrawal set is the no-data message, and
\* the average of a report that has one is a quotient by the number of its
\* withdrawals, which is not zero.
C20_EmptyReportNoData ==
    last.op = "generateReport"
    => LET withdrawals == last.rec[1].withdrawals
           statistics == last.rec[1].statistics
       IN  /\ withdrawals = <<>> => statistics = NoDataAvailable
           /\ ~statistics.noData
              => /\ statistics.avgCost.t = "quot"
                 /\ statistics.avgCost.d = Len(withdrawals)
                 /\ statistics.avgCost.d > 0

\* a report whose category filter leaves none of the stored withdrawals
C20_Witness ==
    /\ last.op = "generateReport"
    /\ last.args.category = "Tools"
    /\ getAllWithdrawals(storage) # <<>>
    /\ last.rec[1].withdrawals = <<>>
    /\ last.rec[1].statistics = NoDataAvailable

\* the sum of a numeric field over the records of a withdrawal set
RECURSIVE SumOver(_, _)
SumOver(withdrawals, field) ==
    IF withdrawals = <<>> THEN 0
    ELSE Head(withdrawals)[field].v + SumOver(Tail(withdrawals), field)

\* C21: for every non-empty withdrawal set reached through the ledger, the
\* report's count is the number of records, totalCost the sum of their
\* totalCost, totalQuantity the sum of their quantity, and the average cost
\* totalCost divided by the count.
C21_ReportTotals ==
    ( last.op = "generateReport" /\ last.rec[1].withdrawals # <<>> )
    => LET withdrawals == last.rec[1].withdrawals
           statistics == last.rec[1].statistics
       IN  /\ ~statistics.noData
           /\ statistics.totalWithdrawals = Len(withdrawals)
           /\ statistics.totalCost = Num(SumOver(withdrawals, "totalCost"))
           /\ statistics.totalQuantity = Num(SumOver(withdrawals, "quantity"))
           /\ statistics.avgCost.t = "quot"
           /\ statistics.avgCost.v = SumOver(withdrawals, "totalCost")
           /\ statistics.avgCost.d = Len(withdrawals)

\* a report of two withdrawals, of 5 and of 3 at 2.50 each
C21_Witness ==
    /\ last.op = "generateReport"
    /\ Len(last.rec[1].withdrawals) = 2
    /\ last.rec[1].statistics.totalQuantity = Num(8)
    /\ last.rec[1].statistics.totalCost = Num(2000)
    /\ last.rec[1].statistics.avgCost = [t |-> "quot", v |-> 2000, d |-> 2]

\* C23: the history view of a withdrawal set holds the records of the set,
\* none dropped and none twice, ordered by date descending: of two adjacent
\* rows the upper one has the later or the same date.
C23_HistoryNewestFirst ==
    last.op = "generateReport"
    => LET withdrawals == last.rec[1].withdrawals
           history == last.rec[1].history
       IN  /\ Len(history) = Len(withdrawals)
           /\ \A i \in 1..Len(withdrawals) :
                  Cardinality({ j \in 1..Len(history) : history[j] = withdrawals[i] })
                    = Cardinality({ j \in 1..Len(withdrawals) :
                                      withdrawals[j] = withdrawals[i] })
           /\ \A i \in 1..(Len(history) - 1) :
                  DateParse(history[i].date) >= DateParse(history[i + 1].date)

\* a history whose top row is a later withdrawal than its second row
C23_Witness ==
    /\ last.op = "generateReport"
    /\ Len(last.rec[1].history) >= 2
    /\ DateParse(last.rec[1].history[1].date) > DateParse(last.rec[1].history[2].date)
    /\ last.rec[1].history[1] = last.rec[1].withdrawals[2]

\* C24: an item's id and dateAdded never change after creation: over every
\* updateItem call, whatever the patch, and every withdrawItem call, the
\* stored item of each position has the id and the dateAdded it had before.
C24_IdentityKept ==
    [][ (calls' = calls + 1 /\ last'.op \in {"updateItem", "withdrawItem"}) =>
            /\ Len(getAllItems(storage')) = Len(getAllItems(storage))
            /\ \A i \in 1..Len(getAllItems(storage)) :
                  /\ getAllItems(storage')[i].id = getAllItems(storage)[i].id
                  /\ getAllItems(storage')[i].dateAdded
                        = getAllItems(storage)[i].dateAdded ]_vars

\* the quantity of the draft an item was created from (the drafts differ in name)
CreatedQuantity(item) ==
    ParseInt((CHOOSE d \in ConservationDrafts : d.name = item.name).quantity)

\* the sum of quantity over the withdrawal records of one item id
RECURSIVE WithdrawnOf(_, _)
WithdrawnOf(withdrawals, itemId) ==
    IF withdrawals = <<>> THEN Num(0)
    ELSE JsAdd(IF Head(withdrawals).itemId = itemId
               THEN Head(withdrawals).quantity ELSE Num(0),
               WithdrawnOf(Tail(withdrawals), itemId))

\* C26: stock conservation: with every write succeeding and no updateItem
\* call of a caller, in every state reached by withdrawItem calls each stored
\* item's quantity plus the sum of quantity over the withdrawal records with
\* its id equals the quantity it was created with.
C26_StockConserved ==
    \A i \in 1..Len(getAllItems(storage)) :
        LET item == getAllItems(storage)[i]
        IN  JsAdd(item.quantity, WithdrawnOf(getAllWithdrawals(storage), item.id))
              = CreatedQuantity(item)

\* the reads of the core
ReadOps ==
    { "getItem", "getAllItems", "getAllCategories", "getAllWithdrawals",
      "getWithdrawalsByDateRange", "getWithdrawalsByCategory", "generateReport" }

\* C25: the read side is pure: getItem, getAllItems, getAllCategories,
\* getAllWithdrawals, getWithdrawalsByDateRange, getWithdrawalsByCategory and
\* generateReport, with any filters, leave the three keys of the store as
\* they were.
C25_ReadsArePure ==
    [][ (last'.op \in ReadOps /\ calls' = calls) => storage' = storage ]_vars

\* a report is generated over a store that holds an item and a withdrawal,
\* and the store still holds them
C25_Witness ==
    /\ last.op = "generateReport"
    /\ last.rec[1].withdrawals # <<>>
    /\ getAllItems(storage) # <<>>
    /\ getAllWithdrawals(storage) # <<>>
    /\ storage.items.set /\ storage.withdrawals.set

\* C22: a read of a collection whose stored value is absent or corrupt
\* yields the default collection, and no call of the ledgers raises: the
\* start-up and every ledger operation complete with a result.
C22_ReadsRecover ==
    /\ ~last.raised
    /\ \A key \in STORAGE_KEYS :
          (~storage[key].set \/ storage[key].shape # "array")
            => LoadsDefault(storage, key)

\* an item or a category of the store before is not in the store after
Removed(before, after) ==
    \/ \E i \in 1..Len(getAllItems(before)) :
          \A j \in 1..Len(getAllItems(after)) :
              getAllItems(after)[j].id # getAllItems(before)[i].id
    \/ \E i \in 1..Len(getAllCategories(before)) :
          \A j \in 1..Len(getAllCategories(after)) :
              getAllCategories(after)[j] # getAllCategories(before)[i]

\* C27: a callback registered by showConfirmDialog runs at most once and only
\* on a confirm click: a confirm click leaves no callback pending and, with
\* none pending, leaves the store alone; opening, cancelling and closing the
\* dialog leave the store alone; and an item or a category is removed only
\* by a confirm click that found the callback pending.
C27_ConfirmRunsOnce ==
    [][ /\ last'.op = "handleConfirm" =>
              /\ confirmCallback' = <<>>
              /\ ~confirmModal'
              /\ (confirmCallback = <<>> => storage' = storage)
        /\ last'.op \in {"cancel", "close", "overlay",
                         "confirmDeleteItem", "confirmDeleteCategory"} =>
              storage' = storage
        /\ last'.op \in {"cancel", "close", "overlay"} =>
              confirmCallback' = confirmCallback
        /\ Removed(storage, storage') =>
              /\ last'.op = "handleConfirm"
              /\ confirmCallback # <<>>
              /\ last'.args = confirmCallback ]_vars

\* the second confirm click: the first deleted the only item and cleared the
\* callback, the second finds none pending
C27_Witness ==
    /\ last.op = "handleConfirm"
    /\ last.args = <<>>
    /\ confirmCallback = <<>>
    /\ storage.items.set
    /\ getAllItems(storage) = <<>>

====
